---- MODULE Spec2Model ----
(***************************************************************************)
(* A model of cargo-hakari's command layer                                 *)
(* (tools/cargo-hakari/src/command.rs): one CLI invocation after another   *)
(* on a workspace whose manifests, lock file and hakari config persist     *)
(* between invocations.  The workspace's on-disk state is                  *)
(*   edges    the workspace packages whose manifest carries a dependency   *)
(*            line on the workspace-hack (hakari) package,                 *)
(*   lock     the edge state Cargo.lock was last generated from,           *)
(*   config   the state of .guppy/hakari.toml,                             *)
(*   newCrate whether the crate written by `init` exists.                  *)
(* Every subprocess, prompt and file operation the code calls with `?` is  *)
(* an input that may succeed or fail.                                      *)
(***************************************************************************)
EXTENDS Integers, Sequences, FiniteSets, TLC

\* Number of workspace members (packages 1..NumPackages).
NumPackages == 3

\* builder.hakari_package(): the workspace-hack package, a workspace member.
HakariPackage == 1

Members == 1..NumPackages

\* The largest number of --package arguments given to manage-deps and remove-deps.
MaxSelected == 2

\* A package name that is not a workspace member.
NonMember == NumPackages + 1

Names == Members \cup {NonMember}

VARIABLES
    excluded,     \* packages the hakari config excludes (besides the hakari package)
    edges,        \* on disk: packages with a dependency edge to HakariPackage
    lock,         \* on disk: the edge state Cargo.lock reflects
    config,       \* on disk: "missing", "unparsable" or "ok"
    newCrate,     \* on disk: the crate `init` writes exists
    toml,         \* on disk: the generated section of the hakari package's Cargo.toml
    lockToml,     \* on disk: the generated section Cargo.lock reflects
    cmd,          \* the command being executed
    pc,           \* position in the command's code
    graph,        \* package_graph: the edges as read when the command started
    ops,          \* the WorkspaceOps computed by the command (remove_ops for publish)
    add_ops,      \* publish: the forced add operations
    add_later,    \* publish: whether the dependency was removed
    run,          \* publish: outcome of expression.run(): "none", "ok", "err"
    should_apply, \* apply_on_dialog: the confirmation's answer
    result,       \* what exec returned
    existing_toml, \* generate, disable: the HakariCargoToml read from disk
    new_contents, \* generate, disable: the contents to reconcile the file with
    log,          \* the side effects attempted by the command, in order
    pre,          \* history: the on-disk state when the command started
    sm            \* the summaries under conversion (guppy/src/graph/summaries.rs)

vars == <<excluded, edges, lock, config, newCrate, toml, lockToml, cmd, pc, graph,
          ops, add_ops, add_later, run, should_apply, existing_toml, new_contents,
          result, log, pre, sm>>

disk == [edges |-> edges, lock |-> lock, config |-> config, newCrate |-> newCrate,
         toml |-> toml, lockToml |-> lockToml]

----------------------------------------------------------------------------
\* Result<i32>

NoResult == [kind |-> "none", code |-> 0, err |-> ""]

Ok(n) == [kind |-> "ok", code |-> n, err |-> ""]

Err(e) == [kind |-> "err", code |-> 0, err |-> e]

\* The error of the external publish action, wrapped as "`cargo publish ..` failed".
PublishFailed == Err("publish failed")

----------------------------------------------------------------------------
\* Commands (the StructOpt enums)

NoCmd == [kind |-> "none", packages |-> {}, package |-> NonMember,
          dry_run |-> FALSE, yes |-> FALSE, skip_config |-> FALSE, diff |-> FALSE]

\* dry_run conflicts_with yes
Modes == {m \in [dry_run : BOOLEAN, yes : BOOLEAN] : ~(m.dry_run /\ m.yes)}

InitCmds ==
    {[kind |-> "init", packages |-> {}, package |-> NonMember,
      dry_run |-> m.dry_run, yes |-> m.yes, skip_config |-> s, diff |-> FALSE] :
        m \in Modes, s \in BOOLEAN}

DepsCmds ==
    {[kind |-> k, packages |-> ps, package |-> NonMember,
      dry_run |-> m.dry_run, yes |-> m.yes, skip_config |-> FALSE, diff |-> FALSE] :
        k \in {"manage-deps", "remove-deps"},
        ps \in {x \in SUBSET Names : Cardinality(x) <= MaxSelected}, m \in Modes}

PublishCmds ==
    {[kind |-> "publish", packages |-> {}, package |-> p,
      dry_run |-> FALSE, yes |-> FALSE, skip_config |-> FALSE, diff |-> FALSE] : p \in Names}

\* generate [--diff] and disable [--diff]
TomlCmds ==
    {[kind |-> k, packages |-> {}, package |-> NonMember,
      dry_run |-> FALSE, yes |-> FALSE, skip_config |-> FALSE, diff |-> d] :
        k \in {"generate", "disable"}, d \in BOOLEAN}

VerifyCmds ==
    {[kind |-> "verify", packages |-> {}, package |-> NonMember,
      dry_run |-> FALSE, yes |-> FALSE, skip_config |-> FALSE, diff |-> FALSE]}

Commands == InitCmds \cup DepsCmds \cup PublishCmds \cup TomlCmds \cup VerifyCmds

----------------------------------------------------------------------------
\* The generated section of the hakari package's Cargo.toml

\* DISABLE_MESSAGE
DISABLE_MESSAGE == "disabled"

\* The contents Hakari::to_toml_string may generate.
Generated == {"generated 1", "generated 2"}

Contents == Generated \cup {DISABLE_MESSAGE}

\* No HakariCargoToml read.
NoContents == "none"

\* HakariCargoToml::is_changed
is_changed(existing, contents) == existing # contents

\* HakariCargoToml::diff_toml: the hunks of the patch from the existing
\* contents to the new ones.
diff_toml(existing, contents) ==
    IF existing = contents THEN << >> ELSE <<[old |-> existing, new |-> contents]>>

\* No summary under conversion.
NoSummary == [step |-> "none"]

----------------------------------------------------------------------------
\* WorkspaceOps

RECURSIVE SetToSeq(_)
SetToSeq(S) ==
    IF S = {} THEN << >>
    ELSE LET m == CHOOSE x \in S : \A y \in S : x <= y
         IN <<m>> \o SetToSeq(S \ {m})

OpsOf(kind, S) ==
    LET s == SetToSeq(S)
    IN [i \in 1..Len(s) |-> [op |-> kind, pkg |-> s[i], config |-> FALSE]]

\* HakariBuilder::is_excluded: the hakari package itself never gets the edge.
is_excluded(p) == p = HakariPackage \/ p \in excluded

\* HakariBuilder::manage_dep_ops
manage_dep_ops(workspace_set, g) ==
    OpsOf("AddEdge", {p \in workspace_set : ~is_excluded(p) /\ p \notin g})
        \o OpsOf("RemoveEdge", {p \in workspace_set : is_excluded(p) /\ p \in g})

\* HakariBuilder::remove_dep_ops
remove_dep_ops(workspace_set, force, g) ==
    OpsOf("RemoveEdge", {p \in workspace_set :
                            p # HakariPackage /\ (force \/ p \in g)})

\* HakariBuilder::add_dep_ops
add_dep_ops(workspace_set, force, g) ==
    OpsOf("AddEdge", {p \in workspace_set :
                            p # HakariPackage /\ (force \/ p \notin g)})

\* HakariInit::make_ops: one operation creating the crate (and the config).
make_ops(with_config) ==
    <<[op |-> "NewCrate", pkg |-> NonMember, config |-> with_config]>>

\* WorkspaceOp::apply on the manifests
ApplyOp(o, e) ==
    CASE o.op = "AddEdge" -> e \cup {o.pkg}
      [] o.op = "RemoveEdge" -> e \ {o.pkg}
      [] OTHER -> e

RECURSIVE ApplyEdges(_, _)
ApplyEdges(os, e) ==
    IF os = << >> THEN e ELSE ApplyEdges(Tail(os), ApplyOp(Head(os), e))

\* The edge states a failed apply may leave: the operations are applied in
\* order, and the failing one and those after it are not.
FailedEdges(os, e) == {ApplyEdges(SubSeq(os, 1, k), e) : k \in 0..(Len(os) - 1)}

HasNewCrate(os) == \E i \in 1..Len(os) : os[i].op = "NewCrate"

WritesConfig(os) == \E i \in 1..Len(os) : os[i].op = "NewCrate" /\ os[i].config

\* PackageSelection::to_package_set: the named members, or the whole workspace.
SelectionOk(packages) == packages \subseteq Members

\* Mutant: no --package argument selects nothing.
to_package_set_no_default(packages) == packages

to_package_set(packages) == IF packages # {} THEN packages ELSE Members

----------------------------------------------------------------------------
Init ==
    /\ excluded \in SUBSET (Members \ {HakariPackage})
    /\ edges \in SUBSET (Members \ {HakariPackage})
    /\ lock = edges
    /\ config \in {"missing", "unparsable", "ok"}
    /\ newCrate = FALSE
    /\ toml \in Contents
    /\ lockToml = toml
    /\ existing_toml = NoContents
    /\ new_contents = NoContents
    /\ sm = NoSummary
    /\ cmd = NoCmd
    /\ pc = "idle"
    /\ graph = edges
    /\ ops = << >>
    /\ add_ops = << >>
    /\ add_later = FALSE
    /\ run = "none"
    /\ should_apply = FALSE
    /\ result = NoResult
    /\ log = << >>
    /\ pre = disk

Return(r) == pc' = "done" /\ result' = r

\* Command::exec up to the match: a new invocation builds the package graph.
Invoke ==
    /\ pc = "idle"
    /\ \E c \in Commands, built \in BOOLEAN :
        /\ cmd' = c
        /\ graph' = edges
        /\ IF built THEN pc' = "dispatch" /\ result' = NoResult
                    ELSE Return(Err("building package graph failed"))
    /\ pre' = disk
    /\ UNCHANGED <<excluded, edges, lock, config, newCrate, toml, lockToml, ops,
                   add_ops, add_later, run, should_apply, existing_toml, new_contents,
                   log, sm>>

\* Command::Initialize: HakariInit::new, set_config, make_ops.
Initialize ==
    /\ pc = "dispatch" /\ cmd.kind = "init"
    /\ \E ok \in BOOLEAN :
        IF ok
        THEN /\ ops' = make_ops(~cmd.skip_config)
             /\ pc' = "dialog"
             /\ UNCHANGED result
        ELSE /\ Return(Err("error initializing Hakari package"))
             /\ UNCHANGED ops
    /\ UNCHANGED <<excluded, edges, lock, lockToml, config, newCrate, cmd, graph, add_ops,
                   add_later, run, should_apply, log, pre, toml, existing_toml,
                   new_contents, sm>>

\* Mutant: a config file that cannot be read or parsed is replaced by the default.
WithBuilderConfigOptional ==
    /\ pc = "dispatch" /\ cmd.kind # "init"
    /\ \E resolved \in BOOLEAN :
        CASE FALSE ->
                Return(Err("could not read hakari config"))
          [] OTHER ->
                IF resolved THEN pc' = "builder" /\ UNCHANGED result
                ELSE Return(Err("could not resolve Hakari config"))
    /\ UNCHANGED <<excluded, edges, lock, lockToml, config, newCrate, cmd, graph, ops, add_ops,
                   add_later, run, should_apply, log, pre, toml, existing_toml,
                   new_contents, sm>>

\* Command::WithBuilder: read_config and to_hakari_builder.
WithBuilder ==
    /\ pc = "dispatch" /\ cmd.kind # "init"
    /\ \E resolved \in BOOLEAN :
        CASE config = "missing" ->
                Return(Err("could not read hakari config"))
          [] config = "unparsable" ->
                Return(Err("could not deserialize hakari config"))
          [] OTHER ->
                IF resolved THEN pc' = "builder" /\ UNCHANGED result
                ELSE Return(Err("could not resolve Hakari config"))
    /\ UNCHANGED <<excluded, edges, lock, lockToml, config, newCrate, cmd, graph, ops, add_ops,
                   add_later, run, should_apply, log, pre, toml, existing_toml,
                   new_contents, sm>>

\* Mutant: the operations of remove-deps are computed instead.
ManageDepsAsRemove ==
    /\ pc = "builder" /\ cmd.kind = "manage-deps"
    /\ IF ~SelectionOk(cmd.packages)
       THEN Return(Err("unknown workspace name")) /\ UNCHANGED ops
       ELSE LET computed == remove_dep_ops(to_package_set(cmd.packages), FALSE, graph)
            IN /\ ops' = computed
               /\ IF computed = << >>
                  THEN Return(Ok(0))
                  ELSE pc' = "dialog" /\ UNCHANGED result
    /\ UNCHANGED <<excluded, edges, lock, lockToml, config, newCrate, cmd, graph, add_ops,
                   add_later, run, should_apply, log, pre, toml, existing_toml,
                   new_contents, sm>>

\* CommandWithBuilder::ManageDeps up to the call of apply_on_dialog.
ManageDeps ==
    /\ pc = "builder" /\ cmd.kind = "manage-deps"
    /\ IF ~SelectionOk(cmd.packages)
       THEN Return(Err("unknown workspace name")) /\ UNCHANGED ops
       ELSE LET computed == manage_dep_ops(to_package_set(cmd.packages), graph)
            IN /\ ops' = computed
               /\ IF computed = << >>
                  THEN Return(Ok(0))
                  ELSE pc' = "dialog" /\ UNCHANGED result
    /\ UNCHANGED <<excluded, edges, lock, lockToml, config, newCrate, cmd, graph, add_ops,
                   add_later, run, should_apply, log, pre, toml, existing_toml,
                   new_contents, sm>>

\* Mutant: the early return on an empty operation set is missing.
RemoveDepsNoEmptyCheck ==
    /\ pc = "builder" /\ cmd.kind = "remove-deps"
    /\ IF ~SelectionOk(cmd.packages)
       THEN Return(Err("unknown workspace name")) /\ UNCHANGED ops
       ELSE /\ ops' = remove_dep_ops(to_package_set(cmd.packages), FALSE, graph)
            /\ pc' = "dialog"
            /\ UNCHANGED result
    /\ UNCHANGED <<excluded, edges, lock, lockToml, config, newCrate, cmd, graph, add_ops,
                   add_later, run, should_apply, log, pre, toml, existing_toml,
                   new_contents, sm>>

\* CommandWithBuilder::RemoveDeps up to the call of apply_on_dialog.
RemoveDeps ==
    /\ pc = "builder" /\ cmd.kind = "remove-deps"
    /\ IF ~SelectionOk(cmd.packages)
       THEN Return(Err("unknown workspace name")) /\ UNCHANGED ops
       ELSE LET computed == remove_dep_ops(to_package_set(cmd.packages), FALSE, graph)
            IN /\ ops' = computed
               /\ IF computed = << >>
                  THEN Return(Ok(0))
                  ELSE pc' = "dialog" /\ UNCHANGED result
    /\ UNCHANGED <<excluded, edges, lock, lockToml, config, newCrate, cmd, graph, add_ops,
                   add_later, run, should_apply, log, pre, toml, existing_toml,
                   new_contents, sm>>

----------------------------------------------------------------------------
\* apply_on_dialog

\* Mutant: the dry-run exit is missing.
ApplyOnDialogNoDryRun ==
    /\ pc = "dialog"
    /\ IF cmd.yes
       THEN /\ should_apply' = TRUE
            /\ pc' = "confirmed"
            /\ log' = Append(log, "preview")
            /\ UNCHANGED result
       ELSE \E answer \in {"yes", "no", "error"} :
            /\ log' = log \o <<"preview", "prompt_" \o answer>>
            /\ IF answer = "error"
               THEN Return(Err("error reading input")) /\ UNCHANGED should_apply
               ELSE /\ should_apply' = (answer = "yes")
                    /\ pc' = "confirmed"
                    /\ UNCHANGED result
    /\ UNCHANGED <<excluded, edges, lock, lockToml, config, newCrate, cmd, graph, ops, add_ops,
                   add_later, run, pre, toml, existing_toml,
                   new_contents, sm>>

\* The preview, the dry-run exit and the confirmation.
ApplyOnDialog ==
    /\ pc = "dialog"
    /\ IF cmd.dry_run
       THEN /\ Return(Ok(1))
            /\ log' = Append(log, "preview")
            /\ UNCHANGED should_apply
       ELSE IF cmd.yes
       THEN /\ should_apply' = TRUE
            /\ pc' = "confirmed"
            /\ log' = Append(log, "preview")
            /\ UNCHANGED result
       ELSE \E answer \in {"yes", "no", "error"} :
            /\ log' = log \o <<"preview", "prompt_" \o answer>>
            /\ IF answer = "error"
               THEN Return(Err("error reading input")) /\ UNCHANGED should_apply
               ELSE /\ should_apply' = (answer = "yes")
                    /\ pc' = "confirmed"
                    /\ UNCHANGED result
    /\ UNCHANGED <<excluded, edges, lock, lockToml, config, newCrate, cmd, graph, ops, add_ops,
                   add_later, run, pre, toml, existing_toml,
                   new_contents, sm>>

\* Mutant: the operations are applied whatever the answer was.
ApplyConfirmedIgnoreAnswer ==
    /\ pc = "confirmed"
    /\ IF should_apply \/ ~should_apply
       THEN \E applied \in BOOLEAN, after \in BOOLEAN :
            IF ~applied
            THEN /\ edges' \in FailedEdges(ops, edges)
                 /\ log' = Append(log, "apply_err")
                 /\ Return(Err("apply failed"))
                 /\ UNCHANGED <<lock, lockToml, config, newCrate>>
            ELSE /\ edges' = ApplyEdges(ops, edges)
                 /\ newCrate' = (newCrate \/ HasNewCrate(ops))
                 /\ config' = IF WritesConfig(ops) THEN "ok" ELSE config
                 /\ IF cmd.kind = "init" \/ after
                    THEN /\ lock' = IF cmd.kind = "init" THEN lock ELSE edges'
                         /\ lockToml' = IF cmd.kind = "init" THEN lockToml ELSE toml
                         /\ log' = log \o <<"apply_ok", "after_ok">>
                         /\ Return(Ok(0))
                    ELSE /\ lock' = lock
                         /\ lockToml' = lockToml
                         /\ log' = log \o <<"apply_ok", "after_err">>
                         /\ Return(Err("updating Cargo.lock failed"))
       ELSE /\ Return(Ok(1))
            /\ UNCHANGED <<edges, lock, lockToml, config, newCrate, log>>
    /\ UNCHANGED <<excluded, cmd, graph, ops, add_ops, add_later, run, should_apply,
                   pre, toml, existing_toml,
                   new_contents, sm>>

\* Mutant: `after` runs although applying the operations failed.
ApplyConfirmedAfterAlways ==
    /\ pc = "confirmed"
    /\ IF should_apply
       THEN \E applied \in BOOLEAN, after \in BOOLEAN :
            IF ~applied
            THEN /\ edges' \in FailedEdges(ops, edges)
                 /\ lock' = IF cmd.kind = "init" THEN lock ELSE edges'
                 /\ lockToml' = IF cmd.kind = "init" THEN lockToml ELSE toml
                 /\ log' = log \o <<"apply_err", "after_ok">>
                 /\ Return(Err("apply failed"))
                 /\ UNCHANGED <<config, newCrate>>
            ELSE /\ edges' = ApplyEdges(ops, edges)
                 /\ newCrate' = (newCrate \/ HasNewCrate(ops))
                 /\ config' = IF WritesConfig(ops) THEN "ok" ELSE config
                 /\ IF cmd.kind = "init" \/ after
                    THEN /\ lock' = IF cmd.kind = "init" THEN lock ELSE edges'
                         /\ lockToml' = IF cmd.kind = "init" THEN lockToml ELSE toml
                         /\ log' = log \o <<"apply_ok", "after_ok">>
                         /\ Return(Ok(0))
                    ELSE /\ lock' = lock
                         /\ lockToml' = lockToml
                         /\ log' = log \o <<"apply_ok", "after_err">>
                         /\ Return(Err("updating Cargo.lock failed"))
       ELSE /\ Return(Ok(1))
            /\ UNCHANGED <<edges, lock, lockToml, config, newCrate, log>>
    /\ UNCHANGED <<excluded, cmd, graph, ops, add_ops, add_later, run, should_apply,
                   pre, toml, existing_toml,
                   new_contents, sm>>

\* Mutant: the result of `after` is dropped.
ApplyConfirmedIgnoreAfter ==
    /\ pc = "confirmed"
    /\ IF should_apply
       THEN \E applied \in BOOLEAN, after \in BOOLEAN :
            IF ~applied
            THEN /\ edges' \in FailedEdges(ops, edges)
                 /\ log' = Append(log, "apply_err")
                 /\ Return(Err("apply failed"))
                 /\ UNCHANGED <<lock, lockToml, config, newCrate>>
            ELSE /\ edges' = ApplyEdges(ops, edges)
                 /\ newCrate' = (newCrate \/ HasNewCrate(ops))
                 /\ config' = IF WritesConfig(ops) THEN "ok" ELSE config
                 /\ IF cmd.kind = "init" \/ after
                    THEN /\ lock' = IF cmd.kind = "init" THEN lock ELSE edges'
                         /\ lockToml' = IF cmd.kind = "init" THEN lockToml ELSE toml
                         /\ log' = log \o <<"apply_ok", "after_ok">>
                         /\ Return(Ok(0))
                    ELSE /\ lock' = lock
                         /\ lockToml' = lockToml
                         /\ log' = log \o <<"apply_ok", "after_err">>
                         /\ Return(Ok(0))
       ELSE /\ Return(Ok(1))
            /\ UNCHANGED <<edges, lock, lockToml, config, newCrate, log>>
    /\ UNCHANGED <<excluded, cmd, graph, ops, add_ops, add_later, run, should_apply,
                   pre, toml, existing_toml,
                   new_contents, sm>>

\* if should_apply { ops.apply()?; after()?; Ok(0) } else { Ok(1) }
\* `after` is regenerate_lockfile for manage-deps and remove-deps, and only
\* prints the next steps for init.
ApplyConfirmed ==
    /\ pc = "confirmed"
    /\ IF should_apply
       THEN \E applied \in BOOLEAN, after \in BOOLEAN :
            IF ~applied
            THEN /\ edges' \in FailedEdges(ops, edges)
                 /\ log' = Append(log, "apply_err")
                 /\ Return(Err("apply failed"))
                 /\ UNCHANGED <<lock, lockToml, config, newCrate>>
            ELSE /\ edges' = ApplyEdges(ops, edges)
                 /\ newCrate' = (newCrate \/ HasNewCrate(ops))
                 /\ config' = IF WritesConfig(ops) THEN "ok" ELSE config
                 /\ IF cmd.kind = "init" \/ after
                    THEN /\ lock' = IF cmd.kind = "init" THEN lock ELSE edges'
                         /\ lockToml' = IF cmd.kind = "init" THEN lockToml ELSE toml
                         /\ log' = log \o <<"apply_ok", "after_ok">>
                         /\ Return(Ok(0))
                    ELSE /\ lock' = lock
                         /\ lockToml' = lockToml
                         /\ log' = log \o <<"apply_ok", "after_err">>
                         /\ Return(Err("updating Cargo.lock failed"))
       ELSE /\ Return(Ok(1))
            /\ UNCHANGED <<edges, lock, lockToml, config, newCrate, log>>
    /\ UNCHANGED <<excluded, cmd, graph, ops, add_ops, add_later, run, should_apply,
                   pre, toml, existing_toml,
                   new_contents, sm>>

----------------------------------------------------------------------------
\* CommandWithBuilder::Publish

\* Mutant: add_later is set whether or not a dependency was removed.
PublishRemoveAlwaysAdd ==
    /\ pc = "builder" /\ cmd.kind = "publish"
    /\ IF cmd.package \notin Members
       THEN /\ Return(Err("unknown workspace member"))
            /\ UNCHANGED <<edges, ops, add_later, log>>
       ELSE LET remove_ops == remove_dep_ops({cmd.package}, FALSE, graph)
            IN /\ ops' = remove_ops
               /\ edges' = ApplyEdges(remove_ops, edges)
               /\ add_later' = TRUE
               /\ log' = IF remove_ops = << >> THEN log ELSE Append(log, "remove_ok")
               /\ pc' = "run"
               /\ UNCHANGED result
    /\ UNCHANGED <<excluded, lock, lockToml, config, newCrate, cmd, graph, add_ops, run,
                   should_apply, pre, toml, existing_toml,
                   new_contents, sm>>

\* Mutant: a failed removal does not end the command.
PublishRemoveIgnoreFailure ==
    /\ pc = "builder" /\ cmd.kind = "publish"
    /\ IF cmd.package \notin Members
       THEN /\ Return(Err("unknown workspace member"))
            /\ UNCHANGED <<edges, ops, add_later, log>>
       ELSE LET remove_ops == remove_dep_ops({cmd.package}, FALSE, graph)
            IN /\ ops' = remove_ops
               /\ IF remove_ops = << >>
                  THEN /\ add_later' = FALSE
                       /\ pc' = "run"
                       /\ UNCHANGED <<edges, result, log>>
                  ELSE \E removed \in BOOLEAN :
                       IF removed
                       THEN /\ edges' = ApplyEdges(remove_ops, edges)
                            /\ add_later' = TRUE
                            /\ log' = Append(log, "remove_ok")
                            /\ pc' = "run"
                            /\ UNCHANGED result
                       ELSE /\ edges' \in FailedEdges(remove_ops, edges)
                            /\ log' = Append(log, "remove_err")
                            /\ add_later' = TRUE
                            /\ pc' = "run"
                            /\ UNCHANGED result
    /\ UNCHANGED <<excluded, lock, lockToml, config, newCrate, cmd, graph, add_ops, run,
                   should_apply, pre, toml, existing_toml,
                   new_contents, sm>>

\* Mutant: a name that is no workspace member is published without a removal.
PublishRemoveUnknownRuns ==
    /\ pc = "builder" /\ cmd.kind = "publish"
    /\ IF cmd.package \notin Members
       THEN /\ pc' = "run"
            /\ UNCHANGED <<edges, ops, add_later, log, result>>
       ELSE LET remove_ops == remove_dep_ops({cmd.package}, FALSE, graph)
            IN /\ ops' = remove_ops
               /\ IF remove_ops = << >>
                  THEN /\ add_later' = FALSE
                       /\ pc' = "run"
                       /\ UNCHANGED <<edges, result, log>>
                  ELSE \E removed \in BOOLEAN :
                       IF removed
                       THEN /\ edges' = ApplyEdges(remove_ops, edges)
                            /\ add_later' = TRUE
                            /\ log' = Append(log, "remove_ok")
                            /\ pc' = "run"
                            /\ UNCHANGED result
                       ELSE /\ edges' \in FailedEdges(remove_ops, edges)
                            /\ log' = Append(log, "remove_err")
                            /\ Return(Err("error removing dependency"))
                            /\ UNCHANGED add_later
    /\ UNCHANGED <<excluded, lock, lockToml, config, newCrate, cmd, graph, add_ops, run,
                   should_apply, pre, toml, existing_toml,
                   new_contents, sm>>

\* member_by_name, remove_dep_ops and the immediate removal.
PublishRemove ==
    /\ pc = "builder" /\ cmd.kind = "publish"
    /\ IF cmd.package \notin Members
       THEN /\ Return(Err("unknown workspace member"))
            /\ UNCHANGED <<edges, ops, add_later, log>>
       ELSE LET remove_ops == remove_dep_ops({cmd.package}, FALSE, graph)
            IN /\ ops' = remove_ops
               /\ IF remove_ops = << >>
                  THEN /\ add_later' = FALSE
                       /\ pc' = "run"
                       /\ UNCHANGED <<edges, result, log>>
                  ELSE \E removed \in BOOLEAN :
                       IF removed
                       THEN /\ edges' = ApplyEdges(remove_ops, edges)
                            /\ add_later' = TRUE
                            /\ log' = Append(log, "remove_ok")
                            /\ pc' = "run"
                            /\ UNCHANGED result
                       ELSE /\ edges' \in FailedEdges(remove_ops, edges)
                            /\ log' = Append(log, "remove_err")
                            /\ Return(Err("error removing dependency"))
                            /\ UNCHANGED add_later
    /\ UNCHANGED <<excluded, lock, lockToml, config, newCrate, cmd, graph, add_ops, run,
                   should_apply, pre, toml, existing_toml,
                   new_contents, sm>>

\* Mutant: the add operations are not forced.
PublishRunUnforced ==
    /\ pc = "run"
    /\ add_ops' = add_dep_ops({cmd.package}, FALSE, graph)
    /\ \E outcome \in {"ok", "err"} :
        /\ run' = outcome
        /\ log' = Append(log, "publish_" \o outcome)
    /\ pc' = "match"
    /\ UNCHANGED <<excluded, edges, lock, lockToml, config, newCrate, cmd, graph, ops,
                   add_later, should_apply, result, pre, toml, existing_toml,
                   new_contents, sm>>

\* The forced add_dep_ops, computed on the graph built before the removal,
\* and expression.run(): cargo publish --allow-dirty.
PublishRun ==
    /\ pc = "run"
    /\ add_ops' = add_dep_ops({cmd.package}, TRUE, graph)
    /\ \E outcome \in {"ok", "err"} :
        /\ run' = outcome
        /\ log' = Append(log, "publish_" \o outcome)
    /\ pc' = "match"
    /\ UNCHANGED <<excluded, edges, lock, lockToml, config, newCrate, cmd, graph, ops,
                   add_later, should_apply, result, pre, toml, existing_toml,
                   new_contents, sm>>

\* Mutant: the lock file is regenerated before the dependency is added back.
RestoreRegenFirst(last) ==
    \E added \in BOOLEAN, regenerated \in BOOLEAN :
        IF ~added
        THEN /\ edges' \in FailedEdges(add_ops, edges)
             /\ lock' = lock
             /\ lockToml' = lockToml
             /\ log' = Append(log, "add_err")
             /\ Return(Err("apply failed"))
        ELSE /\ edges' = ApplyEdges(add_ops, edges)
             /\ IF regenerated
                THEN /\ lock' = edges'
                     /\ lockToml' = toml
                     /\ log' = log \o <<"regen_ok", "add_ok">>
                     /\ Return(last)
                ELSE /\ lock' = lock
                     /\ lockToml' = lockToml
                     /\ log' = log \o <<"add_ok", "regen_err">>
                     /\ Return(Err("updating Cargo.lock failed"))

\* add_ops.apply()?; regenerate_lockfile(output)?; then `last`
Restore(last) ==
    \E added \in BOOLEAN, regenerated \in BOOLEAN :
        IF ~added
        THEN /\ edges' \in FailedEdges(add_ops, edges)
             /\ lock' = lock
             /\ lockToml' = lockToml
             /\ log' = Append(log, "add_err")
             /\ Return(Err("apply failed"))
        ELSE /\ edges' = ApplyEdges(add_ops, edges)
             /\ IF regenerated
                THEN /\ lock' = edges'
                     /\ lockToml' = toml
                     /\ log' = log \o <<"add_ok", "regen_ok">>
                     /\ Return(last)
                ELSE /\ lock' = lock
                     /\ lockToml' = lockToml
                     /\ log' = log \o <<"add_ok", "regen_err">>
                     /\ Return(Err("updating Cargo.lock failed"))

\* Mutant: success is reported without adding the dependency back.
PublishOkForget ==
    /\ pc = "match" /\ run = "ok" /\ add_later
    /\ Return(Ok(0))
    /\ UNCHANGED <<excluded, edges, lock, lockToml, config, newCrate, cmd, graph, ops, add_ops,
                   add_later, run, should_apply, log, pre, toml, existing_toml,
                   new_contents, sm>>

\* (Ok(_), true)
PublishOkRestore ==
    /\ pc = "match" /\ run = "ok" /\ add_later
    /\ Restore(Ok(0))
    /\ UNCHANGED <<excluded, config, newCrate, cmd, graph, ops, add_ops, add_later,
                   run, should_apply, pre, toml, existing_toml,
                   new_contents, sm>>

\* (Ok(_), false)
PublishOkDone ==
    /\ pc = "match" /\ run = "ok" /\ ~add_later
    /\ Return(Ok(0))
    /\ UNCHANGED <<excluded, edges, lock, lockToml, config, newCrate, cmd, graph, ops, add_ops,
                   add_later, run, should_apply, log, pre, toml, existing_toml,
                   new_contents, sm>>

\* Mutant: the failure is returned before the rollback.
PublishErrNoRollback ==
    /\ pc = "match" /\ run = "err" /\ add_later
    /\ Return(PublishFailed)
    /\ UNCHANGED <<excluded, edges, lock, lockToml, config, newCrate, cmd, graph, ops, add_ops,
                   add_later, run, should_apply, log, pre, toml, existing_toml,
                   new_contents, sm>>

\* (Err(err), true)
PublishErrRollback ==
    /\ pc = "match" /\ run = "err" /\ add_later
    /\ Restore(PublishFailed)
    /\ UNCHANGED <<excluded, config, newCrate, cmd, graph, ops, add_ops, add_later,
                   run, should_apply, pre, toml, existing_toml,
                   new_contents, sm>>

\* Mutant: the failure of cargo publish is dropped.
PublishErrSwallowed ==
    /\ pc = "match" /\ run = "err" /\ ~add_later
    /\ Return(Ok(0))
    /\ UNCHANGED <<excluded, edges, lock, lockToml, config, newCrate, cmd, graph, ops, add_ops,
                   add_later, run, should_apply, log, pre, toml, existing_toml,
                   new_contents, sm>>

\* (Err(err), false)
PublishErrDone ==
    /\ pc = "match" /\ run = "err" /\ ~add_later
    /\ Return(PublishFailed)
    /\ UNCHANGED <<excluded, edges, lock, lockToml, config, newCrate, cmd, graph, ops, add_ops,
                   add_later, run, should_apply, log, pre, toml, existing_toml,
                   new_contents, sm>>

----------------------------------------------------------------------------
\* generate, disable, verify

\* CommandWithBuilder::Generate up to the call of write_to_cargo_toml.
Generate ==
    /\ pc = "builder" /\ cmd.kind = "generate"
    /\ \E generated \in BOOLEAN, read \in BOOLEAN, contents \in Generated :
        IF ~generated
        THEN /\ Return(Err("error generating new hakari.toml"))
             /\ UNCHANGED <<existing_toml, new_contents>>
        ELSE IF ~read
        THEN /\ Return(Err("error reading Cargo.toml"))
             /\ UNCHANGED <<existing_toml, new_contents>>
        ELSE /\ new_contents' = contents
             /\ existing_toml' = toml
             /\ pc' = "reconcile"
             /\ UNCHANGED result
    /\ UNCHANGED <<excluded, edges, lock, lockToml, config, toml, newCrate, cmd, graph,
                   ops, add_ops, add_later, run, should_apply, log, pre, sm>>

\* CommandWithBuilder::Disable up to the call of write_to_cargo_toml.
Disable ==
    /\ pc = "builder" /\ cmd.kind = "disable"
    /\ \E read \in BOOLEAN :
        IF ~read
        THEN /\ Return(Err("error reading Cargo.toml"))
             /\ UNCHANGED <<existing_toml, new_contents>>
        ELSE /\ new_contents' = DISABLE_MESSAGE
             /\ existing_toml' = toml
             /\ pc' = "reconcile"
             /\ UNCHANGED result
    /\ UNCHANGED <<excluded, edges, lock, lockToml, config, toml, newCrate, cmd, graph,
                   ops, add_ops, add_later, run, should_apply, log, pre, sm>>

\* Mutant: --diff is ignored and the file is written.
WriteToCargoTomlIgnoreDiff ==
    /\ pc = "reconcile"
    /\ IF cmd.diff /\ ~is_changed(existing_toml, new_contents)
       THEN /\ log' = Append(log, "diff")
            /\ Return(IF diff_toml(existing_toml, new_contents) = << >>
                      THEN Ok(0) ELSE Ok(1))
            /\ UNCHANGED <<toml, lock, lockToml>>
       ELSE IF ~is_changed(existing_toml, new_contents)
       THEN /\ Return(Ok(0))
            /\ UNCHANGED <<toml, lock, lockToml, log>>
       ELSE \E written \in BOOLEAN, regenerated \in BOOLEAN :
            IF ~written
            THEN /\ log' = Append(log, "write_err")
                 /\ Return(Err("error writing updated Hakari contents"))
                 /\ UNCHANGED <<toml, lock, lockToml>>
            ELSE /\ toml' = new_contents
                 /\ IF regenerated
                    THEN /\ lock' = edges
                         /\ lockToml' = toml'
                         /\ log' = log \o <<"write_ok", "regen_ok">>
                         /\ Return(Ok(0))
                    ELSE /\ UNCHANGED <<lock, lockToml>>
                         /\ log' = log \o <<"write_ok", "regen_err">>
                         /\ Return(Err("updating Cargo.lock failed"))
    /\ UNCHANGED <<excluded, edges, config, newCrate, cmd, graph, ops, add_ops,
                   add_later, run, should_apply, existing_toml, new_contents, pre, sm>>

\* Mutant: the file is written without asking is_changed.
WriteToCargoTomlAlwaysWrite ==
    /\ pc = "reconcile"
    /\ IF cmd.diff
       THEN /\ log' = Append(log, "diff")
            /\ Return(IF diff_toml(existing_toml, new_contents) = << >>
                      THEN Ok(0) ELSE Ok(1))
            /\ UNCHANGED <<toml, lock, lockToml>>
       ELSE IF FALSE
       THEN /\ Return(Ok(0))
            /\ UNCHANGED <<toml, lock, lockToml, log>>
       ELSE \E written \in BOOLEAN, regenerated \in BOOLEAN :
            IF ~written
            THEN /\ log' = Append(log, "write_err")
                 /\ Return(Err("error writing updated Hakari contents"))
                 /\ UNCHANGED <<toml, lock, lockToml>>
            ELSE /\ toml' = new_contents
                 /\ IF regenerated
                    THEN /\ lock' = edges
                         /\ lockToml' = toml'
                         /\ log' = log \o <<"write_ok", "regen_ok">>
                         /\ Return(Ok(0))
                    ELSE /\ UNCHANGED <<lock, lockToml>>
                         /\ log' = log \o <<"write_ok", "regen_err">>
                         /\ Return(Err("updating Cargo.lock failed"))
    /\ UNCHANGED <<excluded, edges, config, newCrate, cmd, graph, ops, add_ops,
                   add_later, run, should_apply, existing_toml, new_contents, pre, sm>>

\* Mutant: the result of regenerate_lockfile is dropped.
WriteToCargoTomlIgnoreRegen ==
    /\ pc = "reconcile"
    /\ IF cmd.diff
       THEN /\ log' = Append(log, "diff")
            /\ Return(IF diff_toml(existing_toml, new_contents) = << >>
                      THEN Ok(0) ELSE Ok(1))
            /\ UNCHANGED <<toml, lock, lockToml>>
       ELSE IF ~is_changed(existing_toml, new_contents)
       THEN /\ Return(Ok(0))
            /\ UNCHANGED <<toml, lock, lockToml, log>>
       ELSE \E written \in BOOLEAN, regenerated \in BOOLEAN :
            IF ~written
            THEN /\ log' = Append(log, "write_err")
                 /\ Return(Err("error writing updated Hakari contents"))
                 /\ UNCHANGED <<toml, lock, lockToml>>
            ELSE /\ toml' = new_contents
                 /\ IF regenerated
                    THEN /\ lock' = edges
                         /\ lockToml' = toml'
                         /\ log' = log \o <<"write_ok", "regen_ok">>
                         /\ Return(Ok(0))
                    ELSE /\ UNCHANGED <<lock, lockToml>>
                         /\ log' = log \o <<"write_ok", "regen_err">>
                         /\ Return(Ok(0))
    /\ UNCHANGED <<excluded, edges, config, newCrate, cmd, graph, ops, add_ops,
                   add_later, run, should_apply, existing_toml, new_contents, pre, sm>>

\* write_to_cargo_toml
WriteToCargoToml ==
    /\ pc = "reconcile"
    /\ IF cmd.diff
       THEN /\ log' = Append(log, "diff")
            /\ Return(IF diff_toml(existing_toml, new_contents) = << >>
                      THEN Ok(0) ELSE Ok(1))
            /\ UNCHANGED <<toml, lock, lockToml>>
       ELSE IF ~is_changed(existing_toml, new_contents)
       THEN /\ Return(Ok(0))
            /\ UNCHANGED <<toml, lock, lockToml, log>>
       ELSE \E written \in BOOLEAN, regenerated \in BOOLEAN :
            IF ~written
            THEN /\ log' = Append(log, "write_err")
                 /\ Return(Err("error writing updated Hakari contents"))
                 /\ UNCHANGED <<toml, lock, lockToml>>
            ELSE /\ toml' = new_contents
                 /\ IF regenerated
                    THEN /\ lock' = edges
                         /\ lockToml' = toml'
                         /\ log' = log \o <<"write_ok", "regen_ok">>
                         /\ Return(Ok(0))
                    ELSE /\ UNCHANGED <<lock, lockToml>>
                         /\ log' = log \o <<"write_ok", "regen_err">>
                         /\ Return(Err("updating Cargo.lock failed"))
    /\ UNCHANGED <<excluded, edges, config, newCrate, cmd, graph, ops, add_ops,
                   add_later, run, should_apply, existing_toml, new_contents, pre, sm>>

\* Mutant: a failed verification is returned as an error.
VerifyFailureIsError ==
    /\ pc = "builder" /\ cmd.kind = "verify"
    /\ \E verified \in BOOLEAN :
        IF verified
        THEN log' = Append(log, "verify_ok") /\ Return(Ok(0))
        ELSE log' = Append(log, "verify_err") /\ Return(Err("verification failed"))
    /\ UNCHANGED <<excluded, edges, lock, lockToml, config, toml, newCrate, cmd, graph,
                   ops, add_ops, add_later, run, should_apply, existing_toml,
                   new_contents, pre, sm>>

\* CommandWithBuilder::Verify
Verify ==
    /\ pc = "builder" /\ cmd.kind = "verify"
    /\ \E verified \in BOOLEAN :
        IF verified
        THEN log' = Append(log, "verify_ok") /\ Return(Ok(0))
        ELSE log' = Append(log, "verify_err") /\ Return(Ok(1))
    /\ UNCHANGED <<excluded, edges, lock, lockToml, config, toml, newCrate, cmd, graph,
                   ops, add_ops, add_later, run, should_apply, existing_toml,
                   new_contents, pre, sm>>

\* Args::exec has returned and the process exits; the disk state stays.
Exit ==
    /\ pc = "done"
    /\ pc' = "idle"
    /\ cmd' = NoCmd
    /\ graph' = edges
    /\ ops' = << >>
    /\ add_ops' = << >>
    /\ add_later' = FALSE
    /\ run' = "none"
    /\ should_apply' = FALSE
    /\ result' = NoResult
    /\ log' = << >>
    /\ existing_toml' = NoContents
    /\ new_contents' = NoContents
    /\ pre' = disk
    /\ UNCHANGED <<excluded, edges, lock, config, newCrate, toml, lockToml, sm>>

----------------------------------------------------------------------------
Next ==
    \/ Invoke
    \/ Exit
    \/ Initialize
    \/ WithBuilder
    \/ ManageDeps
    \/ RemoveDeps
    \/ ApplyOnDialog
    \/ ApplyConfirmed
    \/ PublishRemove
    \/ PublishRun
    \/ PublishOkRestore
    \/ PublishOkDone
    \/ PublishErrRollback
    \/ PublishErrDone
    \/ Generate
    \/ Disable
    \/ WriteToCargoToml
    \/ Verify

Spec == Init /\ [][Next]_vars

----------------------------------------------------------------------------
\* guppy/src/graph/summaries.rs

\* Number of packages of the package graph.
NumSummaryPackages == 2

\* Package indexes; a package's id and name are modelled by its index.
Pkgs == 1..NumSummaryPackages

CRATES_IO_REGISTRY == "registry+https://github.com/rust-lang/crates.io-index"

Paths == {"a", "b"}

Origins == {CRATES_IO_REGISTRY, "registry+https://example.com/index"}

\* PackageSource
Workspace(path) == [kind |-> "Workspace", value |-> path]

Path(path) == [kind |-> "Path", value |-> path]

External(source) == [kind |-> "External", value |-> source]

PackageSources ==
    {Workspace(p) : p \in Paths} \cup {Path(p) : p \in Paths}
        \cup {External(o) : o \in Origins}

\* SummarySource
SummarySource_workspace(path) == [tag |-> "workspace", value |-> path]

SummarySource_path(path) == [tag |-> "path", value |-> path]

SummarySource_crates_io == [tag |-> "crates-io", value |-> ""]

SummarySource_external(source) == [tag |-> "external", value |-> source]

SummarySources ==
    {SummarySource_workspace(p) : p \in Paths} \cup {SummarySource_path(p) : p \in Paths}
        \cup {SummarySource_crates_io}
        \cup {SummarySource_external(o) : o \in Origins \ {CRATES_IO_REGISTRY}}

\* Mutant: the crates.io registry is not told apart from other registries.
to_summary_source_no_crates_io(source) ==
    CASE source.kind = "Workspace" -> SummarySource_workspace(source.value)
      [] source.kind = "Path" -> SummarySource_path(source.value)
      [] OTHER -> SummarySource_external(source.value)

\* PackageSource::to_summary_source
to_summary_source(source) ==
    CASE source.kind = "Workspace" -> SummarySource_workspace(source.value)
      [] source.kind = "Path" -> SummarySource_path(source.value)
      [] OTHER -> IF source.value = CRATES_IO_REGISTRY
                  THEN SummarySource_crates_io
                  ELSE SummarySource_external(source.value)

\* A package graph gives every package its source; workspace members have
\* distinct workspace paths.
PackageGraphs ==
    {g \in [Pkgs -> PackageSources] :
        \A p, q \in Pkgs :
            (p # q /\ g[p].kind = "Workspace" /\ g[q].kind = "Workspace")
                => g[p].value # g[q].value}

in_workspace(g, p) == g[p].kind = "Workspace"

\* PackageMetadata::to_summary_id
to_summary_id(g, p) ==
    [name |-> p, version |-> "0.1.0", source |-> to_summary_source(g[p])]

\* A FeatureSet is a set of (package, feature) pairs.
Features == {"default"}

FeatureSets == SUBSET (Pkgs \X Features)

\* The packages of FeatureSet::packages_with_features.
packages(feature_set) == {x[1] : x \in feature_set}

\* FeatureList::features
features(feature_set, p) == {x[2] : x \in {y \in feature_set : y[1] = p}}

\* Mutant: a direct dependency is recognised before workspace membership.
PackageStatusDirectFirst(p, initials, direct_deps, g) ==
    IF p \in packages(initials) THEN "Initial"
    ELSE IF p \in direct_deps THEN "Direct"
    ELSE IF in_workspace(g, p) THEN "Workspace"
    ELSE "Transitive"

\* The status chosen in FeatureSet::to_package_map.
PackageStatus(p, initials, direct_deps, g) ==
    IF p \in packages(initials) THEN "Initial"
    ELSE IF in_workspace(g, p) THEN "Workspace"
    ELSE IF p \in direct_deps THEN "Direct"
    ELSE "Transitive"

\* FeatureSet::to_package_map
to_package_map(self, initials, direct_deps, g) ==
    [id \in {to_summary_id(g, p) : p \in packages(self)} |->
        LET p == CHOOSE q \in packages(self) : to_summary_id(g, q) = id
        IN [status |-> PackageStatus(p, initials, direct_deps, g),
            features |-> features(self, p)]]

\* Results of the conversions: Ok, Err, and a panic.
SOk(v) == [kind |-> "ok", value |-> v]

SErr(e) == [kind |-> "err", error |-> e]

Panic(m, v) == [kind |-> "panic", message |-> m, variant |-> v]

\* Error::TargetSpecError
TargetSpecError(context, err) ==
    [error |-> "TargetSpecError", context |-> context, detail |-> err]

\* Error::UnknownWorkspacePath
UnknownWorkspacePath(path) ==
    [error |-> "UnknownWorkspacePath", context |-> "", detail |-> path]

\* Option: None is the empty sequence, Some(x) is <<x>>.
None == << >>

Some(x) == <<x>>

\* Platforms: one that a summary can represent, and a custom one that it cannot.
Platforms ==
    {[triple |-> "x86_64-unknown-linux-gnu", custom |-> FALSE],
     [triple |-> "my-target", custom |-> TRUE]}

\* Platform summaries as they may be read from a file.
PlatformSummaries ==
    {[triple |-> "x86_64-unknown-linux-gnu"], [triple |-> "bogus"]}

\* PlatformSummary::new
PlatformSummary_new(platform) ==
    IF platform.custom
    THEN SErr("custom platforms are unsupported")
    ELSE SOk([triple |-> platform.triple])

\* PlatformSummary::to_platform
to_platform(summary) ==
    IF \E p \in Platforms : ~p.custom /\ p.triple = summary.triple
    THEN SOk([triple |-> summary.triple, custom |-> FALSE])
    ELSE SErr("unknown triple")

\* opts.host_platform().map(PlatformSummary::new).transpose()
SummarizePlatform(option) ==
    IF option = None THEN SOk(None)
    ELSE LET r == PlatformSummary_new(option[1])
         IN IF r.kind = "ok" THEN SOk(Some(r.value)) ELSE r

\* self.host_platform.as_ref().map(|platform| platform.to_platform()).transpose()
ParsePlatform(option) ==
    IF option = None THEN SOk(None)
    ELSE LET r == to_platform(option[1])
         IN IF r.kind = "ok" THEN SOk(Some(r.value)) ELSE r

Versions == {"V1", "V2"}

\* CargoOptions
CargoOptionsSet ==
    [version : Versions, include_dev : BOOLEAN, proc_macros_on_target : BOOLEAN,
     host_platform : {None} \cup {Some(p) : p \in Platforms},
     target_platform : {None} \cup {Some(p) : p \in Platforms},
     omitted_packages : SUBSET Pkgs]

\* The order of SummaryId: by name, then version, then source (variant, then
\* its value).  All versions of the model are the same.
TagOrder == <<"workspace", "path", "crates-io", "external">>

ValueOrder == <<"", "a", "b", "registry+https://example.com/index", CRATES_IO_REGISTRY>>

IndexOf(seq, x) == CHOOSE i \in 1..Len(seq) : seq[i] = x

SourceLess(a, b) ==
    \/ IndexOf(TagOrder, a.tag) < IndexOf(TagOrder, b.tag)
    \/ /\ a.tag = b.tag
       /\ IndexOf(ValueOrder, a.value) < IndexOf(ValueOrder, b.value)

IdLess(a, b) ==
    \/ a.name < b.name
    \/ a.name = b.name /\ SourceLess(a.source, b.source)

\* The elements of a BTreeSet<SummaryId> in iteration order.
RECURSIVE SortedIds(_)
SortedIds(S) ==
    IF S = {} THEN << >>
    ELSE LET m == CHOOSE x \in S : \A y \in S \ {x} : IdLess(x, y)
         IN <<m>> \o SortedIds(S \ {m})

\* features_only.sort_unstable(): FeaturesOnlySummary orders by summary_id first.
sort_unstable(S) ==
    LET ids == SortedIds({f.summary_id : f \in S})
    IN [i \in 1..Len(ids) |-> CHOOSE f \in S : f.summary_id = ids[i]]

\* Mutant: the host and target platforms are stored in each other's field.
CargoOptionsSummary_new_swapped(g, features_only, opts) ==
    LET omitted_summary_ids == {to_summary_id(g, p) : p \in opts.omitted_packages}
        sorted == sort_unstable({[summary_id |-> to_summary_id(g, p),
                                  features |-> features(features_only, p)] :
                                        p \in packages(features_only)})
        host == SummarizePlatform(opts.host_platform)
        target == SummarizePlatform(opts.target_platform)
    IN IF host.kind # "ok"
       THEN SErr(TargetSpecError("while serializing host platform", host.error))
       ELSE IF target.kind # "ok"
       THEN SErr(TargetSpecError("while serializing target platform", target.error))
       ELSE SOk([version |-> opts.version,
                 include_dev |-> opts.include_dev,
                 proc_macros_on_target |-> opts.proc_macros_on_target,
                 host_platform |-> target.value,
                 target_platform |-> host.value,
                 omitted_packages |-> omitted_summary_ids,
                 features_only |-> sorted])

\* Mutant: the target platform is summarized before the host platform.
CargoOptionsSummary_new_target_first(g, features_only, opts) ==
    LET omitted_summary_ids == {to_summary_id(g, p) : p \in opts.omitted_packages}
        sorted == sort_unstable({[summary_id |-> to_summary_id(g, p),
                                  features |-> features(features_only, p)] :
                                        p \in packages(features_only)})
        host == SummarizePlatform(opts.host_platform)
        target == SummarizePlatform(opts.target_platform)
    IN IF target.kind # "ok"
       THEN SErr(TargetSpecError("while serializing target platform", target.error))
       ELSE IF host.kind # "ok"
       THEN SErr(TargetSpecError("while serializing host platform", host.error))
       ELSE SOk([version |-> opts.version,
                 include_dev |-> opts.include_dev,
                 proc_macros_on_target |-> opts.proc_macros_on_target,
                 host_platform |-> host.value,
                 target_platform |-> target.value,
                 omitted_packages |-> omitted_summary_ids,
                 features_only |-> sorted])

\* CargoOptionsSummary::new; the omitted package ids are ids of the graph.
CargoOptionsSummary_new(g, features_only, opts) ==
    LET omitted_summary_ids == {to_summary_id(g, p) : p \in opts.omitted_packages}
        sorted == sort_unstable({[summary_id |-> to_summary_id(g, p),
                                  features |-> features(features_only, p)] :
                                        p \in packages(features_only)})
        host == SummarizePlatform(opts.host_platform)
        target == SummarizePlatform(opts.target_platform)
    IN IF host.kind # "ok"
       THEN SErr(TargetSpecError("while serializing host platform", host.error))
       ELSE IF target.kind # "ok"
       THEN SErr(TargetSpecError("while serializing target platform", target.error))
       ELSE SOk([version |-> opts.version,
                 include_dev |-> opts.include_dev,
                 proc_macros_on_target |-> opts.proc_macros_on_target,
                 host_platform |-> host.value,
                 target_platform |-> target.value,
                 omitted_packages |-> omitted_summary_ids,
                 features_only |-> sorted])

\* Workspace::member_by_path
member_by_path(g, path) ==
    IF \E p \in Pkgs : g[p] = Workspace(path)
    THEN SOk(CHOOSE p \in Pkgs : g[p] = Workspace(path))
    ELSE SErr(UnknownWorkspacePath(path))

\* The closure of to_cargo_options that converts one omitted SummaryId.
OmittedPackage(g, summary_id) ==
    IF summary_id.source.tag = "workspace"
    THEN member_by_path(g, summary_id.source.value)
    ELSE Panic("conversion from non-workspace sources is currently unsupported",
               summary_id.source)

\* The rest of to_cargo_options, once the omitted packages are converted.
SetOptions(summary, omitted_packages) ==
    LET host == ParsePlatform(summary.host_platform)
        target == ParsePlatform(summary.target_platform)
    IN IF host.kind # "ok"
       THEN SErr(TargetSpecError("parsing host platform", host.error))
       ELSE IF target.kind # "ok"
       THEN SErr(TargetSpecError("parsing target platform", target.error))
       ELSE SOk([version |-> summary.version,
                 include_dev |-> summary.include_dev,
                 proc_macros_on_target |-> summary.proc_macros_on_target,
                 host_platform |-> host.value,
                 target_platform |-> target.value,
                 omitted_packages |-> omitted_packages])

\* Mutant: omitted packages that cannot be converted are left out.
to_cargo_options_filter(summary, g) ==
    LET ids == SortedIds(summary.omitted_packages)
        good == {i \in 1..Len(ids) : OmittedPackage(g, ids[i]).kind = "ok"}
    IN SetOptions(summary, {OmittedPackage(g, ids[i]).value : i \in good})

\* CargoOptionsSummary::to_cargo_options: the conversion of the omitted
\* packages stops at the first one, in the set's order, that fails.
to_cargo_options(summary, g) ==
    LET ids == SortedIds(summary.omitted_packages)
        failing == {i \in 1..Len(ids) : OmittedPackage(g, ids[i]).kind # "ok"}
    IN IF failing # {}
       THEN OmittedPackage(g, ids[CHOOSE i \in failing : \A j \in failing : i <= j])
       ELSE SetOptions(summary, {OmittedPackage(g, ids[i]).value : i \in 1..Len(ids)})

\* CargoSet::to_summary
to_summary(self, opts, g) ==
    LET metadata == CargoOptionsSummary_new(g, self.features_only, opts)
    IN IF metadata.kind # "ok" THEN metadata
       ELSE SOk([metadata |-> Some(metadata.value),
                 target_packages |-> to_package_map(self.target_features, self.initials,
                                                    self.target_direct_deps, g),
                 host_packages |-> to_package_map(self.host_features, self.initials,
                                                  self.host_direct_deps, g)])

\* The CargoSets to_summary is applied to: any initials, target and host
\* features, no features-only packages and no direct dependencies.
CargoSets ==
    [initials : FeatureSets, features_only : {{}},
     target_features : FeatureSets, host_features : FeatureSets,
     target_direct_deps : {{}}, host_direct_deps : {{}}]

\* The options to_summary is applied to: CargoOptions::new() with any platforms.
PlatformOptions ==
    {opts \in CargoOptionsSet :
        /\ opts.version = "V1"
        /\ ~opts.include_dev
        /\ ~opts.proc_macros_on_target
        /\ opts.omitted_packages = {}}

\* Summaries as they may be read from a file: the omitted packages have
\* distinct names and any source.
GivenOmitted ==
    {{[name |-> p, version |-> "0.1.0", source |-> f[p]] : p \in S} :
        S \in SUBSET Pkgs, f \in [Pkgs -> SummarySources]}

GivenSummaries ==
    [version : Versions, include_dev : BOOLEAN, proc_macros_on_target : BOOLEAN,
     host_platform : {None} \cup {Some(p) : p \in PlatformSummaries},
     target_platform : {None} \cup {Some(p) : p \in PlatformSummaries},
     omitted_packages : GivenOmitted,
     features_only : {<< >>}]

\* The command layer is at rest while summaries are converted.
SummaryInit ==
    /\ sm \in [step : {"start"}, graph : PackageGraphs, args : {<< >>}, out : {<< >>}]
    /\ excluded = {}
    /\ edges = {}
    /\ lock = {}
    /\ config = "ok"
    /\ newCrate = FALSE
    /\ toml = DISABLE_MESSAGE
    /\ lockToml = DISABLE_MESSAGE
    /\ existing_toml = NoContents
    /\ new_contents = NoContents
    /\ cmd = NoCmd
    /\ pc = "idle"
    /\ graph = {}
    /\ ops = << >>
    /\ add_ops = << >>
    /\ add_later = FALSE
    /\ run = "none"
    /\ should_apply = FALSE
    /\ result = NoResult
    /\ log = << >>
    /\ pre = disk

Call(step, args, out) ==
    /\ sm' = [step |-> step, graph |-> sm.graph, args |-> args, out |-> out]
    /\ UNCHANGED <<excluded, edges, lock, config, newCrate, toml, lockToml, cmd, pc,
                   graph, ops, add_ops, add_later, run, should_apply, existing_toml,
                   new_contents, result, log, pre>>

\* PackageSource::to_summary_source on any source.
ToSummarySource ==
    /\ sm.step = "start"
    /\ \E source \in PackageSources :
        Call("to_summary_source", [source |-> source], to_summary_source(source))

\* FeatureSet::to_package_map on a feature set of the graph.
ToPackageMap ==
    /\ sm.step = "start"
    /\ \E self \in FeatureSets, initials \in FeatureSets, direct_deps \in SUBSET Pkgs :
        Call("to_package_map",
             [self |-> self, initials |-> initials, direct_deps |-> direct_deps],
             to_package_map(self, initials, direct_deps, sm.graph))

\* CargoOptionsSummary::new on live options of the graph.
NewSummary ==
    /\ sm.step = "start"
    /\ \E features_only \in FeatureSets, opts \in CargoOptionsSet :
        Call("new", [features_only |-> features_only, opts |-> opts],
             CargoOptionsSummary_new(sm.graph, features_only, opts))

\* to_cargo_options on the summary that new has just built from the same graph.
RoundTrip ==
    /\ sm.step = "new"
    /\ sm.out.kind = "ok"
    /\ Call("round_trip", [opts |-> sm.args.opts, summary |-> sm.out.value],
            to_cargo_options(sm.out.value, sm.graph))

\* to_cargo_options on a summary that was read from a file.
FromSummary ==
    /\ sm.step = "start"
    /\ \E summary \in GivenSummaries :
        Call("to_cargo_options", [summary |-> summary],
             to_cargo_options(summary, sm.graph))

\* CargoSet::to_summary on a CargoSet of the graph.
ToSummary ==
    /\ sm.step = "start"
    /\ \E self \in CargoSets, opts \in PlatformOptions :
        Call("to_summary", [self |-> self, opts |-> opts],
             to_summary(self, opts, sm.graph))

SummaryNext ==
    \/ ToSummarySource
    \/ ToPackageMap
    \/ NewSummary
    \/ RoundTrip
    \/ FromSummary
    \/ ToSummary

SummarySpec == SummaryInit /\ [][SummaryNext]_vars

----------------------------------------------------------------------------
\* Properties

InLog(e) == \E i \in 1..Len(log) : log[i] = e

Returned(kind) == pc = "done" /\ cmd.kind = kind

\* C1, as stated: once publish has returned, the on-disk edges equal the
\* edges before the command started.
PublishEndStateAsStated == Returned("publish") => edges = pre.edges

\* C1, amended: once publish has returned, the on-disk edges equal the edges
\* before the command started, unless re-applying the add failed: then that
\* error is returned and the removed edge is the only difference.
PublishEndState ==
    Returned("publish") =>
        \/ edges = pre.edges
        \/ /\ InLog("add_err")
           /\ result = Err("apply failed")
           /\ edges = pre.edges \ {cmd.package}

\* C1 witness: an edge was removed, cargo publish succeeded, the edge is back.
PublishEndStateWitness ==
    /\ Returned("publish")
    /\ cmd.package \in pre.edges
    /\ log = <<"remove_ok", "publish_ok", "add_ok", "regen_ok">>
    /\ result = Ok(0)
    /\ edges = pre.edges

RestoreFailed == InLog("add_err") \/ InLog("regen_err")

\* C2, as stated: whenever publish returns after running the external publish
\* action, it returns 0 iff that action succeeded, and a failure it returns is
\* that action's failure.
PublishReportsOutcomeAsStated ==
    (Returned("publish") /\ run # "none") =>
        /\ result = Ok(0) <=> run = "ok"
        /\ result.kind = "err" => result = PublishFailed

\* C2, amended: publish returns 0 only if the external publish action
\* succeeded; when re-adding the edge and regenerating the lock file did not
\* fail, it returns 0 iff the action succeeded and the failure it returns is
\* the action's; a failure of the re-add or of the regeneration is returned
\* in place of the publish outcome.
PublishReportsOutcome ==
    (Returned("publish") /\ run # "none") =>
        /\ result = Ok(0) => run = "ok"
        /\ ~RestoreFailed =>
            /\ result = Ok(0) <=> run = "ok"
            /\ result.kind = "err" => result = PublishFailed
        /\ RestoreFailed =>
            result \in {Err("apply failed"), Err("updating Cargo.lock failed")}

\* C2 witness: no edge to remove, cargo publish failed, its failure is returned.
PublishReportsOutcomeWitness ==
    /\ Returned("publish")
    /\ ~add_later
    /\ run = "err"
    /\ result = PublishFailed

\* C3: when the edge was removed and cargo publish failed, the failure is
\* returned only after the edge was re-added and the lock file regenerated.
RollbackBeforeError ==
    (Returned("publish") /\ add_later /\ result = PublishFailed) =>
        /\ cmd.package \in edges
        /\ lock = edges
        /\ log = <<"remove_ok", "publish_err", "add_ok", "regen_ok">>

\* C3 witness: a rolled-back publish failure.
RollbackBeforeErrorWitness ==
    /\ Returned("publish")
    /\ add_later
    /\ run = "err"
    /\ result = PublishFailed
    /\ cmd.package \in edges

PublishEvents == {"publish_ok", "publish_err"}

\* C4: publishing a member with no edge to the hakari package never changes
\* the disk and never regenerates the lock file; the outcome of cargo publish
\* is what is returned.
NoEdgeNoMutation ==
    (cmd.kind = "publish" /\ cmd.package \in Members \ pre.edges) =>
        /\ disk = pre
        /\ \A i \in 1..Len(log) : log[i] \in PublishEvents
        /\ (pc = "done" /\ run = "ok") => result = Ok(0)
        /\ (pc = "done" /\ run = "err") => result = PublishFailed
        /\ pc \in {"run", "match", "done"} => ~add_later /\ ops = << >>

\* C4 witness: such a publish returned success.
NoEdgeNoMutationWitness ==
    /\ Returned("publish")
    /\ cmd.package \in Members \ pre.edges
    /\ cmd.package # HakariPackage
    /\ run = "ok"
    /\ result = Ok(0)

ApplyEvents == {"apply_ok", "apply_err"}

AfterEvents == {"after_ok", "after_err"}

NothingApplied ==
    /\ disk = pre
    /\ \A i \in 1..Len(log) : log[i] \notin ApplyEvents \cup AfterEvents

\* C5: with --dry-run (init, manage-deps, remove-deps) the operations are
\* never applied and `after` never runs, and the exit status is non-zero iff
\* the operation set is non-empty.
DryRunNeverApplies ==
    cmd.dry_run =>
        /\ NothingApplied
        /\ (pc = "done" /\ result.kind = "ok") =>
                (result.code # 0 <=> ops # << >>)

\* C5 witness: a dry run with operations pending returned 1.
DryRunNeverAppliesWitness ==
    /\ pc = "done"
    /\ cmd.dry_run
    /\ ops # << >>
    /\ log = <<"preview">>
    /\ result = Ok(1)

\* C6: in interactive mode, declining is no error and ends as a dry run does
\* (nothing applied, `after` not run, exit status 1); approving goes on to
\* apply the operations.
DeclineLikeDryRun ==
    /\ InLog("prompt_no") =>
        /\ ~cmd.dry_run /\ ~cmd.yes
        /\ NothingApplied
        /\ pc = "done" => result = Ok(1)
    /\ (InLog("prompt_yes") /\ pc = "done") =>
        /\ ~cmd.dry_run /\ ~cmd.yes
        /\ Len(log) >= 3 /\ log[3] \in ApplyEvents

\* C6 witness: a declined confirmation returned 1.
DeclineLikeDryRunWitness ==
    /\ pc = "done"
    /\ log = <<"preview", "prompt_no">>
    /\ ops # << >>
    /\ result = Ok(1)

\* C7: `after` runs at most once, and only right after the operations were
\* applied successfully: never in a dry run, after a declined confirmation or
\* after a failed apply.
AfterOnlyAfterApply ==
    /\ \A i \in 1..Len(log) :
            log[i] \in AfterEvents => (i > 1 /\ log[i - 1] = "apply_ok")
    /\ Cardinality({i \in 1..Len(log) : log[i] \in AfterEvents}) <= 1
    /\ (cmd.dry_run \/ InLog("prompt_no") \/ InLog("apply_err")) =>
            \A i \in 1..Len(log) : log[i] \notin AfterEvents

\* C7 witness: applying failed and `after` did not run.
AfterOnlyAfterApplyWitness ==
    /\ pc = "done"
    /\ log = <<"preview", "apply_err">>
    /\ result = Err("apply failed")

\* C8: when `after` fails after the operations were applied, the call fails
\* with that error and the manifests stay mutated; apply_on_dialog returns 0
\* only when both the apply and `after` succeeded.
AfterFailureKeepsMutation ==
    /\ (pc = "done" /\ InLog("after_err")) =>
        /\ result = Err("updating Cargo.lock failed")
        /\ edges = ApplyEdges(ops, pre.edges)
        /\ edges # pre.edges
        /\ lock = pre.lock
    /\ (pc = "done" /\ InLog("preview") /\ result = Ok(0)) =>
        /\ InLog("apply_ok")
        /\ InLog("after_ok")

\* C8 witness: the lock file regeneration failed after the manifests changed.
AfterFailureKeepsMutationWitness ==
    /\ pc = "done"
    /\ InLog("after_err")
    /\ edges # pre.edges
    /\ result.kind = "err"

\* The package set a manage-deps or remove-deps command line selects.
Selection == IF cmd.packages = {} THEN Members ELSE cmd.packages

\* C9: after manage-deps applied its operations, the operations computed for
\* the same selection against the new manifests are empty; and manage-deps
\* on a workspace with nothing to do returns 0 without doing anything.
ManageDepsIdempotent ==
    /\ (Returned("manage-deps") /\ InLog("apply_ok")) =>
            manage_dep_ops(Selection, edges) = << >>
    /\ (Returned("manage-deps") /\ result.kind = "ok"
            /\ manage_dep_ops(Selection, graph) = << >>) =>
            (result = Ok(0) /\ log = << >> /\ disk = pre)

\* C9 witness: manage-deps added one edge and removed another.
ManageDepsIdempotentWitness ==
    /\ Returned("manage-deps")
    /\ InLog("apply_ok")
    /\ Len(ops) >= 2
    /\ ops[1].op = "AddEdge"
    /\ ops[Len(ops)].op = "RemoveEdge"
    /\ result = Ok(0)

\* manage-deps has computed its operations.
ManageDepsComputed ==
    /\ cmd.kind = "manage-deps"
    /\ \/ pc \in {"dialog", "confirmed"}
       \/ pc = "done" /\ (result.kind = "ok" \/ log # << >>)

OpSet == {<<ops[i].op, ops[i].pkg>> : i \in 1..Len(ops)}

\* The operations C10 describes, for the packages in S.
NeededOps(S) ==
    {<<"AddEdge", p>> :
        p \in {q \in S : q \notin excluded /\ q # HakariPackage /\ q \notin graph}}
    \cup {<<"RemoveEdge", p>> : p \in {q \in S : q \in excluded /\ q \in graph}}

DepsKinds == {"manage-deps", "remove-deps"}

\* C11: when manage-deps or remove-deps computes an empty operation set, the
\* command returns 0 with no preview, no prompt, nothing applied and no lock
\* file regeneration, whatever the dry-run and auto-confirm flags are.
EmptyOpsReturnZero ==
    cmd.kind \in DepsKinds =>
        /\ pc \in {"dialog", "confirmed"} => ops # << >>
        /\ (pc = "done" /\ result.kind = "ok" /\ ops = << >>) =>
            /\ result = Ok(0)
            /\ log = << >>
            /\ disk = pre

\* C11 witness: a dry run of remove-deps with nothing to remove returned 0.
EmptyOpsReturnZeroWitness ==
    /\ Returned("remove-deps")
    /\ cmd.dry_run
    /\ ops = << >>
    /\ log = << >>
    /\ result = Ok(0)

TomlKinds == {"generate", "disable"}

WriteEvents == {"write_ok", "write_err"}

RegenEvents == {"regen_ok", "regen_err"}

\* write_to_cargo_toml has returned.
Reconciled == pc = "done" /\ cmd.kind \in TomlKinds /\ new_contents # NoContents

\* C12: with --diff, generate and disable never write the manifest and never
\* regenerate the lock file; they return 0 iff the new contents are the
\* existing ones, and 1 otherwise.
DiffNeverWrites ==
    cmd.diff =>
        /\ disk = pre
        /\ \A i \in 1..Len(log) : log[i] = "diff"
        /\ Reconciled =>
            /\ log = <<"diff">>
            /\ new_contents = pre.toml => result = Ok(0)
            /\ new_contents # pre.toml => result = Ok(1)

\* C12 witness: generate --diff found a difference and returned 1.
DiffNeverWritesWitness ==
    /\ Reconciled
    /\ cmd.kind = "generate"
    /\ cmd.diff
    /\ new_contents # toml
    /\ result = Ok(1)

\* C13: without --diff, the manifest is written iff the new contents differ
\* from the existing ones, the lock file is regenerated iff the write
\* succeeded (and right after it), and a call that succeeds returns 0 whether
\* or not anything changed.
WriteIffChanged ==
    (Reconciled /\ ~cmd.diff) =>
        /\ (\E i \in 1..Len(log) : log[i] \in WriteEvents) <=> new_contents # pre.toml
        /\ toml = IF InLog("write_ok") THEN new_contents ELSE pre.toml
        /\ (\E i \in 1..Len(log) : log[i] \in RegenEvents) <=> InLog("write_ok")
        /\ \A i \in 1..Len(log) :
                log[i] \in RegenEvents => (i > 1 /\ log[i - 1] = "write_ok")
        /\ InLog("regen_ok") <=> (lockToml = new_contents /\ lockToml # pre.lockToml)
                                    \/ (InLog("regen_ok") /\ pre.lockToml = new_contents)
        /\ result.kind = "ok" => result = Ok(0)
        /\ new_contents = pre.toml => (result = Ok(0) /\ log = << >> /\ disk = pre)
        /\ InLog("regen_ok") => result = Ok(0)

\* C13 witness: generate wrote new contents, regenerated the lock file and
\* returned 0.
WriteIffChangedWitness ==
    /\ Reconciled
    /\ cmd.kind = "generate"
    /\ log = <<"write_ok", "regen_ok">>
    /\ toml = new_contents
    /\ toml # pre.toml
    /\ lockToml = toml
    /\ result = Ok(0)

\* C14: when the contents changed and regenerating the lock file fails after
\* the write, the call fails with that error and the newly written manifest
\* stays on disk.
RegenFailureSurfaces ==
    (Reconciled /\ InLog("regen_err")) =>
        /\ result = Err("updating Cargo.lock failed")
        /\ log = <<"write_ok", "regen_err">>
        /\ toml = new_contents
        /\ toml # pre.toml
        /\ lock = pre.lock
        /\ lockToml = pre.lockToml

\* C14 witness: disable wrote the disabled contents and the regeneration failed.
RegenFailureSurfacesWitness ==
    /\ Reconciled
    /\ cmd.kind = "disable"
    /\ InLog("regen_err")
    /\ toml = DISABLE_MESSAGE
    /\ pre.toml # DISABLE_MESSAGE
    /\ result.kind = "err"

ConfigErrors == {Err("could not read hakari config"),
                 Err("could not deserialize hakari config"),
                 Err("could not resolve Hakari config")}

\* C19: every command but init fails on a config file that is missing or
\* cannot be parsed, before any operation is computed and before anything on
\* disk changes; init never reads the config file.
ConfigHardError ==
    /\ (pc # "idle" /\ cmd.kind # "init" /\ pre.config # "ok") =>
            /\ pc \in {"dispatch", "done"}
            /\ disk = pre
            /\ ops = << >>
            /\ log = << >>
            /\ new_contents = NoContents
            /\ pc = "done" =>
                result \in {Err("building package graph failed"),
                            IF pre.config = "missing"
                            THEN Err("could not read hakari config")
                            ELSE Err("could not deserialize hakari config")}
    /\ Returned("init") => result \notin ConfigErrors

\* C19 witness: generate has failed on a missing config file.
ConfigHardErrorWitness ==
    /\ Returned("generate")
    /\ pre.config = "missing"
    /\ result = Err("could not read hakari config")

PendingOps ==
    /\ cmd.kind \in {"init", "manage-deps", "remove-deps"}
    /\ ops # << >>
    /\ cmd.dry_run \/ InLog("prompt_no")

NonEmptyDiff ==
    /\ cmd.kind \in TomlKinds
    /\ cmd.diff
    /\ new_contents \notin {NoContents, pre.toml}

VerifyFailed == cmd.kind = "verify" /\ InLog("verify_err")

\* C20: a command that completes without error returns 0 or 1; it returns 1
\* exactly for a dry run or a declined confirmation with operations pending,
\* for --diff with a non-empty diff, and for a failed verification, which is a
\* status and not an error.
ExitCodes ==
    pc = "done" =>
        /\ result.kind = "ok" =>
            /\ result.code \in {0, 1}
            /\ result.code = 1 <=> (PendingOps \/ NonEmptyDiff \/ VerifyFailed)
        /\ VerifyFailed => result = Ok(1)

\* C20 witness: verify has failed and returned status 1.
ExitCodesWitness ==
    /\ Returned("verify")
    /\ InLog("verify_err")
    /\ result = Ok(1)

----------------------------------------------------------------------------
\* Properties of the summaries

\* C15: every package of the selection gets exactly one status, chosen by the
\* first match of Initial (it is in initials), Workspace (it is in the
\* workspace, even if it is a direct dependency too), Direct (it is a direct
\* dependency), Transitive.
RoleClassification ==
    sm.step = "to_package_map" =>
        LET selected == {x[1] : x \in sm.args.self}
            initial(p) == \E x \in sm.args.initials : x[1] = p
            member(p) == sm.graph[p].kind = "Workspace"
            direct(p) == p \in sm.args.direct_deps
            status(p) == sm.out[to_summary_id(sm.graph, p)].status
        IN /\ DOMAIN sm.out = {to_summary_id(sm.graph, p) : p \in selected}
           /\ Cardinality(DOMAIN sm.out) = Cardinality(selected)
           /\ \A p \in selected :
                /\ status(p) \in {"Initial", "Workspace", "Direct", "Transitive"}
                /\ status(p) = "Initial" <=> initial(p)
                /\ status(p) = "Workspace" <=> (~initial(p) /\ member(p))
                /\ status(p) = "Direct" <=> (~initial(p) /\ ~member(p) /\ direct(p))
                /\ status(p) = "Transitive" <=> (~initial(p) /\ ~member(p) /\ ~direct(p))

\* C15 witness: a workspace member that is also a direct dependency, and no
\* initial, has the status Workspace.
RoleClassificationWitness ==
    /\ sm.step = "to_package_map"
    /\ \E x \in sm.args.self :
        /\ sm.graph[x[1]].kind = "Workspace"
        /\ x[1] \in sm.args.direct_deps
        /\ \A y \in sm.args.initials : y[1] # x[1]
        /\ sm.out[to_summary_id(sm.graph, x[1])].status = "Workspace"

\* C16: to_summary_source maps every source: a workspace source to the
\* workspace variant with the same path, a path source to the path variant
\* with the same path, an external source to crates-io exactly if its origin is
\* the crates.io registry, and any other origin to the external variant with
\* that origin unchanged.
SourceClassification ==
    sm.step = "to_summary_source" =>
        LET source == sm.args.source
        IN /\ sm.out \in SummarySources
           /\ source.kind = "Workspace" =>
                sm.out = [tag |-> "workspace", value |-> source.value]
           /\ source.kind = "Path" =>
                sm.out = [tag |-> "path", value |-> source.value]
           /\ source.kind = "External" =>
                /\ sm.out.tag = "crates-io" <=> source.value = CRATES_IO_REGISTRY
                /\ source.value # CRATES_IO_REGISTRY =>
                    sm.out = [tag |-> "external", value |-> source.value]

\* C16 witness: the crates.io registry has been mapped to crates-io.
SourceClassificationWitness ==
    /\ sm.step = "to_summary_source"
    /\ sm.args.source = External(CRATES_IO_REGISTRY)
    /\ sm.out.tag = "crates-io"

\* to_cargo_options has been called, on a built or on a given summary.
Converted == sm.step \in {"round_trip", "to_cargo_options"}

NonWorkspace(id) == id.source.tag # "workspace"

\* A workspace identity whose path is the path of no workspace member.
Unresolvable(id) ==
    /\ id.source.tag = "workspace"
    /\ \A p \in Pkgs : sm.graph[p] # [kind |-> "Workspace", value |-> id.source.value]

\* The workspace members the omitted identities name.
Resolved(ids) ==
    {p \in Pkgs : \E id \in ids :
        sm.graph[p] = [kind |-> "Workspace", value |-> id.source.value]}

Unsupported(out) ==
    /\ out.kind = "panic"
    /\ out.message = "conversion from non-workspace sources is currently unsupported"

\* C17, as stated: any omitted identity that is not a workspace identity makes
\* to_cargo_options fail as unsupported, carrying such a source; a workspace
\* identity with an unknown path makes it fail; a returned value holds exactly
\* the named members.
OmittedConversionAsStated ==
    Converted =>
        LET ids == sm.args.summary.omitted_packages
        IN /\ (\E id \in ids : NonWorkspace(id)) =>
                /\ Unsupported(sm.out)
                /\ \E id \in ids : NonWorkspace(id) /\ sm.out.variant = id.source
           /\ (\E id \in ids : Unresolvable(id)) => sm.out.kind # "ok"
           /\ sm.out.kind = "ok" => sm.out.value.omitted_packages = Resolved(ids)

\* C17, amended: to_cargo_options fails at the first omitted identity, in the
\* set's order, that is not a resolvable workspace identity: it panics as
\* unsupported with that source if the identity is not a workspace identity,
\* and returns the unknown-path error if it is; a returned value holds exactly
\* the named members.
OmittedConversion ==
    Converted =>
        LET ids == sm.args.summary.omitted_packages
            bad == {id \in ids : NonWorkspace(id) \/ Unresolvable(id)}
        IN /\ bad = {} =>
                /\ sm.out.kind \in {"ok", "err"}
                /\ sm.out.kind = "ok" => sm.out.value.omitted_packages = Resolved(ids)
                /\ sm.out.kind = "err" => sm.out.error.error = "TargetSpecError"
           /\ bad # {} =>
                LET first == CHOOSE id \in bad : \A o \in bad \ {id} : IdLess(id, o)
                IN IF NonWorkspace(first)
                   THEN Unsupported(sm.out) /\ sm.out.variant = first.source
                   ELSE sm.out = SErr(UnknownWorkspacePath(first.source.value))

\* C17 witness: the set holds an identity that is not a workspace identity,
\* and the call has returned the unknown-path error of an earlier one.
OmittedConversionWitness ==
    /\ sm.step = "to_cargo_options"
    /\ \E id \in sm.args.summary.omitted_packages : NonWorkspace(id)
    /\ sm.out.kind = "err"
    /\ sm.out.error.error = "UnknownWorkspacePath"

\* C18, as stated: new followed by to_cargo_options on the same graph returns
\* the version, the two flags and the platforms of the options, and the
\* omitted packages iff they are all workspace members.
OptionsRoundTripAsStated ==
    sm.step = "round_trip" =>
        LET opts == sm.args.opts
        IN /\ sm.out.kind = "ok"
           /\ sm.out.value.version = opts.version
           /\ sm.out.value.include_dev = opts.include_dev
           /\ sm.out.value.proc_macros_on_target = opts.proc_macros_on_target
           /\ sm.out.value.host_platform = opts.host_platform
           /\ sm.out.value.target_platform = opts.target_platform
           /\ sm.out.value.omitted_packages = opts.omitted_packages
                <=> \A p \in opts.omitted_packages : sm.graph[p].kind = "Workspace"

\* C18, amended: new succeeds iff both platforms can be summarized; then, if
\* all omitted packages are workspace members, to_cargo_options on the same
\* graph returns the options unchanged, omitted packages included, and
\* otherwise it panics and returns nothing.
OptionsRoundTrip ==
    /\ sm.step = "new" =>
        (sm.out.kind = "ok" <=>
            /\ \A i \in 1..Len(sm.args.opts.host_platform) :
                    ~sm.args.opts.host_platform[i].custom
            /\ \A i \in 1..Len(sm.args.opts.target_platform) :
                    ~sm.args.opts.target_platform[i].custom)
    /\ sm.step = "round_trip" =>
        LET opts == sm.args.opts
        IN IF \A p \in opts.omitted_packages : sm.graph[p].kind = "Workspace"
           THEN /\ sm.out.kind = "ok"
                /\ sm.out.value.version = opts.version
                /\ sm.out.value.include_dev = opts.include_dev
                /\ sm.out.value.proc_macros_on_target = opts.proc_macros_on_target
                /\ sm.out.value.host_platform = opts.host_platform
                /\ sm.out.value.target_platform = opts.target_platform
                /\ sm.out.value.omitted_packages = opts.omitted_packages
           ELSE Unsupported(sm.out)

\* C18 witness: options with a host platform and an omitted workspace member
\* have come back unchanged.
OptionsRoundTripWitness ==
    /\ sm.step = "round_trip"
    /\ sm.args.opts.omitted_packages # {}
    /\ sm.args.opts.host_platform # None
    /\ sm.args.opts.target_platform = None
    /\ sm.out = SOk(sm.args.opts)

----------------------------------------------------------------------------
\* Properties of the publish workflow

\* The place of an event in the workflow: removal, cargo publish, restore,
\* lock regeneration.
Stage(e) ==
    CASE e \in {"remove_ok", "remove_err"} -> "remove"
      [] e \in PublishEvents -> "publish"
      [] e \in {"add_ok", "add_err"} -> "restore"
      [] e \in RegenEvents -> "regen"
      [] OTHER -> "other"

StageOrder == <<"remove", "publish", "restore", "regen">>

Before(a, b) ==
    \E i, j \in 1..Len(StageOrder) : i < j /\ StageOrder[i] = a /\ StageOrder[j] = b

\* C21: in every run of publish the events are, in this order, the removal
\* (iff the edge is present), cargo publish, the restore (only after a
\* removal), the lock regeneration (only right after a restore); each happens
\* at most once and nothing follows a failed removal, restore or regeneration.
PublishOrder ==
    cmd.kind = "publish" =>
        /\ \A i \in 1..Len(log) : Stage(log[i]) # "other"
        /\ \A i, j \in 1..Len(log) : i < j => Before(Stage(log[i]), Stage(log[j]))
        /\ \A i \in 1..Len(log) :
            /\ log[i] \in {"remove_err", "add_err", "regen_err"} => i = Len(log)
            /\ Stage(log[i]) = "publish" =>
                ((i > 1 /\ log[i - 1] = "remove_ok")
                    <=> cmd.package \in pre.edges \ {HakariPackage})
            /\ Stage(log[i]) = "restore" =>
                (i > 2 /\ Stage(log[i - 1]) = "publish" /\ log[i - 2] = "remove_ok")
            /\ Stage(log[i]) = "regen" => (i > 1 /\ log[i - 1] = "add_ok")

\* C21 witness: removal, failed cargo publish, restore and lock regeneration
\* have happened in this order.
PublishOrderWitness ==
    /\ Returned("publish")
    /\ log = <<"remove_ok", "publish_err", "add_ok", "regen_ok">>

\* C22: publish removes an existing edge without preview or prompt before
\* cargo publish starts; when the removal fails, its error is returned, cargo
\* publish is not run and nothing is added back.
RemovalImmediate ==
    cmd.kind = "publish" =>
        /\ \A i \in 1..Len(log) : log[i] \notin {"preview", "prompt_yes", "prompt_no", "prompt_error"}
        /\ (pc = "run" /\ cmd.package \in pre.edges \ {HakariPackage}) =>
                /\ log = <<"remove_ok">>
                /\ edges = pre.edges \ {cmd.package}
                /\ add_later
        /\ InLog("remove_err") =>
                /\ pc = "done"
                /\ result = Err("error removing dependency")
                /\ log = <<"remove_err">>
                /\ run = "none"
                /\ edges = pre.edges

\* C22 witness: the removal has failed and publish has returned its error.
RemovalImmediateWitness ==
    /\ Returned("publish")
    /\ log = <<"remove_err">>
    /\ result = Err("error removing dependency")
    /\ cmd.package \in edges

\* C23: the restore of publish is a forced AddEdge: it is computed on every
\* run from the graph read before the removal, which still shows the edge, it
\* is not empty after a removal, applying it puts the edge back, and it is
\* applied only after a removal.
ForcedRestore ==
    (cmd.kind = "publish" /\ pc \in {"match", "done"} /\ run # "none") =>
        /\ add_ops = IF cmd.package = HakariPackage THEN << >>
                     ELSE <<[op |-> "AddEdge", pkg |-> cmd.package, config |-> FALSE]>>
        /\ graph = pre.edges
        /\ add_later =>
            /\ cmd.package \in graph
            /\ add_ops # << >>
        /\ InLog("add_ok") => (add_later /\ cmd.package \in edges /\ edges = pre.edges)
        /\ InLog("add_err") => add_later
        /\ (pc = "done" /\ add_later) => (InLog("add_ok") \/ InLog("add_err"))

\* C23 witness: the edge was removed, the graph still shows it, and the forced
\* add has put it back.
ForcedRestoreWitness ==
    /\ Returned("publish")
    /\ add_later
    /\ cmd.package \in graph
    /\ InLog("add_ok")
    /\ cmd.package \in edges

\* C24: publish of a name that is no workspace member fails at once: nothing
\* is removed, cargo publish is not run and the disk is unchanged.
UnknownPackageFails ==
    (cmd.kind = "publish" /\ cmd.package \notin Members) =>
        /\ pc \in {"dispatch", "builder", "done"}
        /\ disk = pre
        /\ log = << >>
        /\ run = "none"
        /\ ops = << >>
        /\ add_ops = << >>
        /\ pc = "done" => result.kind = "err"

\* C24 witness: publish has failed on the unknown name.
UnknownPackageFailsWitness ==
    /\ Returned("publish")
    /\ cmd.package \notin Members
    /\ result = Err("unknown workspace member")

----------------------------------------------------------------------------
\* Properties of the platform conversions

\* A platform that PlatformSummary::new cannot represent.
Unrepresentable(option) == option # None /\ option[1].custom

\* A platform summary that to_platform cannot parse.
Unparsable(option) ==
    /\ option # None
    /\ \A p \in Platforms : p.custom \/ p.triple # option[1].triple

Tagged(out, context) ==
    /\ out.kind = "err"
    /\ out.error.error = "TargetSpecError"
    /\ out.error.context = context

\* C25: new and to_summary fail, without a summary, iff a platform cannot be
\* summarized; the error names the host platform if that one fails, also when
\* both fail, and the target platform otherwise.  to_cargo_options, once the
\* omitted packages are converted, names the platform that cannot be parsed
\* in the same way.
PlatformFailureTagged ==
    /\ sm.step \in {"new", "to_summary"} =>
        LET host == sm.args.opts.host_platform
            target == sm.args.opts.target_platform
        IN /\ Unrepresentable(host) =>
                Tagged(sm.out, "while serializing host platform")
           /\ (~Unrepresentable(host) /\ Unrepresentable(target)) =>
                Tagged(sm.out, "while serializing target platform")
           /\ (~Unrepresentable(host) /\ ~Unrepresentable(target)) =>
                sm.out.kind = "ok"
    /\ sm.step = "to_summary" =>
        (sm.out.kind = "ok" =>
            /\ sm.out.value.metadata # None
            /\ DOMAIN sm.out.value.target_packages =
                    {to_summary_id(sm.graph, x[1]) : x \in sm.args.self.target_features}
            /\ DOMAIN sm.out.value.host_packages =
                    {to_summary_id(sm.graph, x[1]) : x \in sm.args.self.host_features})
    /\ (Converted /\ \A id \in sm.args.summary.omitted_packages :
                        ~NonWorkspace(id) /\ ~Unresolvable(id)) =>
        LET host == sm.args.summary.host_platform
            target == sm.args.summary.target_platform
        IN /\ Unparsable(host) => Tagged(sm.out, "parsing host platform")
           /\ (~Unparsable(host) /\ Unparsable(target)) =>
                Tagged(sm.out, "parsing target platform")
           /\ (~Unparsable(host) /\ ~Unparsable(target)) => sm.out.kind = "ok"

\* C25 witness: neither platform can be summarized and to_summary has failed
\* with the error of the host platform.
PlatformFailureTaggedWitness ==
    /\ sm.step = "to_summary"
    /\ Unrepresentable(sm.args.opts.host_platform)
    /\ Unrepresentable(sm.args.opts.target_platform)
    /\ Tagged(sm.out, "while serializing host platform")
====
